---- MODULE Spec2Model ----
(***************************************************************************)
(* Workline search app (getyourphil/workline-slack-app): the article       *)
(* cache, its refresh cycle, the relevance scorer, the Google merge and    *)
(* the search entry point of src/unnamed/part_001 (the Google-enabled app; *)
(* src/unnamed/part_002 carries the same scrapeArticle/refreshArticleCache *)
(* and the cache-only search).                                             *)
(*                                                                         *)
(* JavaScript strings are sequences of one-character strings, so that      *)
(* includes/trim/replace/toLowerCase/split are computed and not assumed.   *)
(* `undefined` and '' are both the empty sequence wherever the code only   *)
(* tests them for truthiness.                                              *)
(***************************************************************************)
EXTENDS Integers, Sequences, FiniteSets, TLC

\* ------------------------------------------------------------------------
\* JavaScript string primitives
\* ------------------------------------------------------------------------

UpperCase == <<"A","B","C","D","E","F","G","H","I","J","K","L","M",
               "N","O","P","Q","R","S","T","U","V","W","X","Y","Z">>

LowerCase == <<"a","b","c","d","e","f","g","h","i","j","k","l","m",
               "n","o","p","q","r","s","t","u","v","w","x","y","z">>

\* String.prototype.toLowerCase, one character
LowerChar(c) ==
    IF \E i \in 1..Len(UpperCase) : UpperCase[i] = c
    THEN LowerCase[CHOOSE i \in 1..Len(UpperCase) : UpperCase[i] = c]
    ELSE c

\* String.prototype.toLowerCase
toLowerCase(s) == [i \in 1..Len(s) |-> LowerChar(s[i])]

\* the characters \s matches (those the model's alphabet has)
IsSpace(c) == c \in {" ", "\n", "\t"}

\* String.prototype.substring(a, b), 0-based, b exclusive, clamped
substring(s, a, b) ==
    LET hi == IF b > Len(s) THEN Len(s) ELSE b
    IN  IF a >= hi THEN <<>> ELSE SubSeq(s, a + 1, hi)

\* does pat occur in s at 1-based position i
OccursAt(s, pat, i) ==
    /\ i >= 1
    /\ i + Len(pat) - 1 <= Len(s)
    /\ \A k \in 1..Len(pat) : s[i + k - 1] = pat[k]

\* String.prototype.includes
includes(s, pat) == \E i \in 1..(Len(s) + 1) : OccursAt(s, pat, i)

\* String.prototype.startsWith
startsWith(s, pat) == OccursAt(s, pat, 1)

\* String.prototype.trim
trim(s) ==
    LET keep == {i \in 1..Len(s) : ~IsSpace(s[i])}
    IN  IF keep = {} THEN <<>>
        ELSE LET lo == CHOOSE i \in keep : \A j \in keep : i <= j
                 hi == CHOOSE i \in keep : \A j \in keep : i >= j
             IN  SubSeq(s, lo, hi)

\* String.prototype.replace(pat, rep) with a string pattern: first occurrence only
replace(s, pat, rep) ==
    IF ~includes(s, pat) THEN s
    ELSE LET i == CHOOSE i \in 1..(Len(s) + 1) :
                     /\ OccursAt(s, pat, i)
                     /\ \A j \in 1..(i - 1) : ~OccursAt(s, pat, j)
         IN  SubSeq(s, 1, i - 1) \o rep \o SubSeq(s, i + Len(pat), Len(s))

RECURSIVE CollapseFrom(_, _)
\* s.replace(/\s+/g, ' ') from position i on
CollapseFrom(s, i) ==
    IF i > Len(s) THEN <<>>
    ELSE IF IsSpace(s[i])
         THEN IF i > 1 /\ IsSpace(s[i - 1])
              THEN CollapseFrom(s, i + 1)
              ELSE <<" ">> \o CollapseFrom(s, i + 1)
         ELSE <<s[i]>> \o CollapseFrom(s, i + 1)

\* content.replace(/\s+/g, ' ')
CollapseSpaces(s) == CollapseFrom(s, 1)

RECURSIVE SplitFrom(_, _, _)
\* String.prototype.split(' '): cur is the piece being read at position i
SplitFrom(s, i, cur) ==
    IF i > Len(s) THEN <<cur>>
    ELSE IF s[i] = " "
         THEN <<cur>> \o SplitFrom(s, i + 1, <<>>)
         ELSE SplitFrom(s, i + 1, Append(cur, s[i]))

\* String.prototype.split(' ')
split(s) == SplitFrom(s, 1, <<>>)

RECURSIVE SelectSeqBy(_, _)
\* Array.prototype.filter for "length > 2" on an array of strings
SelectSeqBy(ts, n) ==
    IF ts = <<>> THEN <<>>
    ELSE IF Len(Head(ts)) > n
         THEN <<Head(ts)>> \o SelectSeqBy(Tail(ts), n)
         ELSE SelectSeqBy(Tail(ts), n)

\* the characters that repeat the atom before them in a regular expression
Quantifiers == {"*", "+"}

\* new RegExp(term) throws SyntaxError: a "(" opens a group that nothing
\* closes, a quantifier stands first or follows a quantifier.  The terms
\* are made of letters, digits, white space and the characters . * + (
RegExpThrows(term) ==
    \/ \E i \in 1..Len(term) : term[i] = "("
    \/ \E i \in 1..Len(term) :
          /\ term[i] \in Quantifiers
          /\ i = 1 \/ term[i - 1] \in Quantifiers

RECURSIVE AtomsFrom(_, _)
\* the atoms of the pattern from position i on: a character (. is any
\* character but a line terminator) and how often it may repeat
AtomsFrom(term, i) ==
    IF i > Len(term) THEN <<>>
    ELSE IF i < Len(term) /\ term[i + 1] \in Quantifiers
         THEN <<[c |-> term[i], q |-> term[i + 1]]>> \o AtomsFrom(term, i + 2)
         ELSE <<[c |-> term[i], q |-> "1"]>> \o AtomsFrom(term, i + 1)

\* does the atom's character match the character x of the text
AtomMatches(c, x) == IF c = "." THEN x \notin {"\n", "\r"} ELSE c = x

RECURSIVE RunFrom(_, _, _)
\* how many characters after offset pos the character c matches in a row
RunFrom(c, text, pos) ==
    IF pos < Len(text) /\ AtomMatches(c, text[pos + 1])
    THEN 1 + RunFrom(c, text, pos + 1)
    ELSE 0

RECURSIVE MatchEnd(_, _, _, _)
RECURSIVE TryReps(_, _, _, _, _, _)
\* the backtracking matcher: the offset at which the match of atoms k..
\* that starts at offset pos ends, -1 if there is none; greedy
MatchEnd(atoms, k, text, pos) ==
    IF k > Len(atoms) THEN pos
    ELSE IF atoms[k].q = "1"
         THEN IF pos < Len(text) /\ AtomMatches(atoms[k].c, text[pos + 1])
              THEN MatchEnd(atoms, k + 1, text, pos + 1)
              ELSE -1
         ELSE TryReps(atoms, k, text, pos, RunFrom(atoms[k].c, text, pos),
                      IF atoms[k].q = "+" THEN 1 ELSE 0)

\* atom k repeated n times, then n-1 times, ... down to least times
TryReps(atoms, k, text, pos, n, least) ==
    IF n < least THEN -1
    ELSE LET end == MatchEnd(atoms, k + 1, text, pos + n)
         IN  IF end # -1 THEN end
             ELSE TryReps(atoms, k, text, pos, n - 1, least)

RECURSIVE CountFrom(_, _, _)
\* text.match(regex with flag g), regex.lastIndex being i: the matches are
\* found left to right, each search starting where the last match ended
\* (one further on after an empty match)
CountFrom(text, atoms, i) ==
    LET starts == {s \in i..Len(text) : MatchEnd(atoms, 1, text, s) # -1}
    IN  IF starts = {} THEN 0
        ELSE LET s == CHOOSE s \in starts : \A r \in starts : s <= r
                 end == MatchEnd(atoms, 1, text, s)
             IN  1 + CountFrom(text, atoms, IF end = s THEN s + 1 ELSE end)

\* (text.match(new RegExp(term, 'g')) || []).length
MatchCount(text, term) == CountFrom(text, AtomsFrom(term, 1), 0)

\* Math.min
Min(a, b) == IF a < b THEN a ELSE b

\* a || b on strings: the first truthy (non-empty) one, else the last
Or(a, b) == IF a # <<>> THEN a ELSE b

\* ------------------------------------------------------------------------
\* Program constants
\* ------------------------------------------------------------------------

\* const CACHE_DURATION = 30 * 60 * 1000
CACHE_DURATION == 30 * 60 * 1000

\* const batchSize = 2
batchSize == 2

\* Math.min(urls.length, 20)
MaxArticles == 20

\* response.data.items.slice(0, 5)
GoogleSlice == 5

\* score: 10 of a Google result
GoogleScore == 10

\* .slice(0, 5) of the merged list
TopN == 5

\* the title of the record scrapeArticle returns from its catch block
PlaceholderTitle == <<"A","r","t","i","c","l","e">>

\* the summary of that record
PlaceholderSummary ==
    <<"C","o","u","l","d"," ","n","o","t"," ","l","o","a","d"," ",
      "s","u","m","m","a","r","y">>

\* the suffixes stripped from the <title> text
SuffixFlexOS == <<" ","|"," ","F","l","e","x","O","S">>

SuffixWorkline == <<" ","|"," ","T","h","e"," ","W","o","r","k","l","i","n","e">>

Ellipsis == <<".",".",".">>

\* the site origin a relative href is prefixed with
Origin ==
    <<"h","t","t","p","s",":","/","/","w","w","w",".",
      "f","l","e","x","o","s",".","w","o","r","k">>

\* the index page, 'https://www.flexos.work/the-workline/'
IndexUrl == Origin \o <<"/","t","h","e","-","w","o","r","k","l","i","n","e","/">>

Keyword == <<"w","o","r","k","l","i","n","e">>

Mailto == <<"m","a","i","l","t","o",":">>

\* ------------------------------------------------------------------------
\* The article cache: a JavaScript Map, which iterates in insertion order.
\* It is the sequence of its entries [key, value], keys pairwise distinct.
\* ------------------------------------------------------------------------

\* Map.prototype.has
MapHas(m, k) == \E i \in 1..Len(m) : m[i].key = k

\* Map.prototype.get (only used where MapHas holds)
MapGet(m, k) == m[CHOOSE i \in 1..Len(m) : m[i].key = k].value

\* a Map.set that forgets every other entry (not the code's)
MapSetDropping(m, k, v) == <<[key |-> k, value |-> v]>>

\* Map.prototype.set: an existing key keeps its place, a new one is appended
MapSet(m, k, v) ==
    IF MapHas(m, k)
    THEN [i \in 1..Len(m) |-> IF m[i].key = k THEN [key |-> k, value |-> v] ELSE m[i]]
    ELSE Append(m, [key |-> k, value |-> v])

\* the keys of the Map
MapKeys(m) == {m[i].key : i \in 1..Len(m)}

\* ------------------------------------------------------------------------
\* scrapeArticle: the field extractor.  A fetched page is given by what the
\* cheerio selectors of the code return on it (a record Doc):
\*   h1, titleTag, classTitle     the three title probes
\*   metaDescription, ogDescription, excerpt   the summary probes
\*   firstParas    the text of $(selector).first() for the 6 paragraph selectors
\*   contentEls    for the 4 content selectors, [n: matched elements, text]
\*   bodyText, tagTexts, timeDatetime, metaPublished, dateText
\* ------------------------------------------------------------------------

\* the title fallback chain
ExtractTitle(doc) ==
    Or(trim(doc.h1),
       Or(trim(replace(replace(doc.titleTag, SuffixFlexOS, <<>>), SuffixWorkline, <<>>)),
          trim(doc.classTitle)))

RECURSIVE FirstLongPara(_, _)
\* the loop over the paragraph selectors: the first trimmed text longer than
\* 30 characters, cut to 250; dflt when there is none
FirstLongPara(paras, dflt) ==
    IF paras = <<>> THEN dflt
    ELSE LET firstPara == trim(Head(paras))
         IN  IF firstPara # <<>> /\ Len(firstPara) > 30
             THEN substring(firstPara, 0, 250)
             ELSE FirstLongPara(Tail(paras), dflt)

\* the summary before its final cut
ExtractSummary(doc) ==
    LET summary == Or(doc.metaDescription, Or(doc.ogDescription, trim(doc.excerpt)))
    IN  IF summary = <<>> \/ Len(summary) < 50
        THEN FirstLongPara(doc.firstParas, summary)
        ELSE summary

RECURSIVE FirstContent(_)
\* the loop over the content selectors: the first that matches any element
FirstContent(els) ==
    IF els = <<>> THEN <<>>
    ELSE IF Head(els).n > 0 THEN trim(Head(els).text)
         ELSE FirstContent(Tail(els))

\* the searchable content
ExtractContent(doc) ==
    LET c0 == FirstContent(doc.contentEls)
        c1 == IF c0 = <<>> \/ Len(c0) < 100 THEN trim(doc.bodyText) ELSE c0
    IN  substring(CollapseSpaces(c1), 0, 3000)

\* Array.prototype.includes
SeqHas(xs, x) == \E i \in 1..Len(xs) : xs[i] = x

RECURSIVE CollectTopics(_, _)
\* the .each over the tag elements
CollectTopics(tagTexts, topics) ==
    IF tagTexts = <<>> THEN topics
    ELSE LET tag == replace(toLowerCase(trim(Head(tagTexts))), <<"#">>, <<>>)
         IN  IF tag # <<>> /\ Len(tag) > 2 /\ ~SeqHas(topics, tag)
             THEN CollectTopics(Tail(tagTexts), Append(topics, tag))
             ELSE CollectTopics(Tail(tagTexts), topics)

\* Array.prototype.slice(0, n)
Take(xs, n) == SubSeq(xs, 1, Min(Len(xs), n))

\* the publish date chain
ExtractDate(doc) ==
    Or(doc.timeDatetime, Or(doc.metaPublished, trim(doc.dateText)))

\* the record of a page that was fetched and parsed, at time t
ScrapeResult(url, doc, t) ==
    LET summary == ExtractSummary(doc)
    IN  [url |-> url,
         title |-> substring(ExtractTitle(doc), 0, 150),
         summary |-> IF summary # <<>>
                     THEN substring(summary, 0, 300)
                          \o (IF Len(summary) > 300 THEN Ellipsis ELSE <<>>)
                     ELSE <<>>,
         content |-> ExtractContent(doc),
         topics |-> Take(CollectTopics(doc.tagTexts, <<>>), 5),
         publishDate |-> ExtractDate(doc),
         scrapedAt |-> t]

\* the record of the catch block: the fetch (or the parse) failed
ScrapeFailure(url) ==
    [url |-> url, title |-> PlaceholderTitle, summary |-> PlaceholderSummary,
     content |-> <<>>, topics |-> <<>>]

\* scrapeArticle(url), given what the fetch did: page is <<>> (it failed) or
\* <<doc>>
scrapeArticle(url, page, t) ==
    IF page = <<>> THEN ScrapeFailure(url) ELSE ScrapeResult(url, page[1], t)

\* the insertion guard of both paths without its title test (not the code's)
IsStorableAlways(article) == TRUE

\* article && article.title !== 'Article'
IsStorable(article) == article.title # PlaceholderTitle

\* ------------------------------------------------------------------------
\* The relevance scorer of searchCachedArticles
\* ------------------------------------------------------------------------

\* query.toLowerCase().split(' ').filter(term => term.length > 2)
QueryTerms(query) == SelectSeqBy(split(toLowerCase(query)), 2)

\* what one term adds to the score of an article
TermScore(article, term) ==
    LET searchableText ==
            toLowerCase(article.title \o <<" ">> \o article.summary
                        \o <<" ">> \o article.content)
    IN  (IF includes(toLowerCase(article.title), term) THEN 5 ELSE 0)
      + (IF includes(toLowerCase(article.summary), term) THEN 3 ELSE 0)
      + (IF \E i \in 1..Len(article.topics) : includes(article.topics[i], term)
         THEN 2 ELSE 0)
      + Min(MatchCount(searchableText, term), 3)

RECURSIVE SumTerms(_, _)
\* queryTerms.forEach(term => score += ...)
SumTerms(article, terms) ==
    IF terms = <<>> THEN 0
    ELSE TermScore(article, Head(terms)) + SumTerms(article, Tail(terms))

\* the score of an article for a query
Score(article, query) == SumTerms(article, QueryTerms(query))

\* scoring an article for the query throws: new RegExp(term, 'g') does for
\* one of the terms
ScoreThrows(query) ==
    \E i \in 1..Len(QueryTerms(query)) : RegExpThrows(QueryTerms(query)[i])

\* ------------------------------------------------------------------------
\* Results: scoring the cache, the Google results, merge, sort, top 5
\* ------------------------------------------------------------------------

RECURSIVE InsertByScoreUnstable(_, _)
\* x put before the elements of equal score (not the code's)
InsertByScoreUnstable(sorted, x) ==
    IF sorted = <<>> THEN <<x>>
    ELSE IF Head(sorted).score > x.score
         THEN <<Head(sorted)>> \o InsertByScoreUnstable(Tail(sorted), x)
         ELSE <<x>> \o sorted

RECURSIVE InsertByScore(_, _)
\* x put behind every element whose score is not smaller: what a stable
\* sort with the comparator (a, b) => b.score - a.score does to the next x
InsertByScore(sorted, x) ==
    IF sorted = <<>> THEN <<x>>
    ELSE IF Head(sorted).score >= x.score
         THEN <<Head(sorted)>> \o InsertByScore(Tail(sorted), x)
         ELSE <<x>> \o sorted

RECURSIVE SortFrom(_, _)
\* the elements of xs put one after the other into the sorted acc
SortFrom(xs, acc) ==
    IF xs = <<>> THEN acc
    ELSE SortFrom(Tail(xs), InsertByScore(acc, Head(xs)))

\* Array.prototype.sort((a, b) => b.score - a.score): stable, by score descending
SortByScore(xs) == SortFrom(xs, <<>>)

RECURSIVE ScoreEntries(_, _)
\* the loop over articleCache.entries(): { ...article, score, source: 'cache' }
\* for every entry that scores above 0, in the Map's order
ScoreEntries(entries, query) ==
    IF entries = <<>> THEN <<>>
    ELSE LET article == Head(entries).value
             score == Score(article, query)
             rest == ScoreEntries(Tail(entries), query)
         IN  IF score > 0
             THEN <<[score |-> score, source |-> "cache"] @@ article>> \o rest
             ELSE rest

\* what searchCachedArticles returns once the cache is fresh enough
CacheResults(cache, query) == SortByScore(ScoreEntries(cache, query))

\* a loop that writes the score and the source into the article it has read
\* from the Map and pushes that very object (not the code's)
StoredScored(article, score) ==
    IF score > 0 THEN [score |-> score, source |-> "cache"] @@ article ELSE article

\* the record the Map holds once the loop has passed its entry: the loop
\* reads article, and what it pushes, { ...article, score, source: 'cache' },
\* is a new object
Stored(article, score) == article

\* the Map after searchCachedArticles has scored it; nothing has been
\* pushed when new RegExp throws, which it does on the first entry
CacheAfterScoring(cache, query) ==
    IF ScoreThrows(query) THEN cache
    ELSE [i \in 1..Len(cache) |->
             [key |-> cache[i].key,
              value |-> Stored(cache[i].value, Score(cache[i].value, query))]]

\* articleData.publishDate, undefined on the record of a failed scrape
PublishDateOf(articleData) ==
    IF "publishDate" \in DOMAIN articleData THEN articleData.publishDate ELSE <<>>

\* a result built from the item alone, whatever is cached or scraped (not
\* the code's)
GoogleResultRaw(item, articleData) ==
    [url |-> item.link, title |-> item.title, summary |-> item.snippet,
     topics |-> <<>>, publishDate |-> <<>>, source |-> "google",
     score |-> GoogleScore]

\* the result searchWithGoogle builds for one item
GoogleResult(item, articleData) ==
    [url |-> item.link,
     title |-> Or(articleData.title, item.title),
     summary |-> Or(articleData.summary, item.snippet),
     topics |-> articleData.topics,
     publishDate |-> PublishDateOf(articleData),
     source |-> "google",
     score |-> GoogleScore]

\* some result of the list has this url
HasUrl(results, url) == \E i \in 1..Len(results) : results[i].url = url

RECURSIVE AddMissing(_, _)
\* cacheResults.forEach: push those whose url no result has yet
AddMissing(allResults, cacheResults) ==
    IF cacheResults = <<>> THEN allResults
    ELSE AddMissing(
            IF HasUrl(allResults, Head(cacheResults).url)
            THEN allResults
            ELSE Append(allResults, Head(cacheResults)),
            Tail(cacheResults))

\* a merge that pushes every cache result (not the code's)
MergeKeepingAll(googleResults, cacheResults) == googleResults \o cacheResults

\* allResults of searchWorklineArticles before the sort
Merge(googleResults, cacheResults) == AddMissing(googleResults, cacheResults)

\* a final cut one element too long (not the code's)
TopResultsLong(allResults) == Take(SortByScore(allResults), TopN + 1)

\* allResults.sort(...).slice(0, 5)
TopResults(allResults) == Take(SortByScore(allResults), TopN)

\* ------------------------------------------------------------------------
\* Link discovery of refreshArticleCache.  The index page is given by the
\* href attributes of the elements its five link selectors match, in the
\* order the code visits them (an element matched by two selectors is
\* visited twice); <<>> is an element without href.
\* ------------------------------------------------------------------------

\* relative to absolute
Absolute(href) == IF startsWith(href, <<"/">>) THEN Origin \o href ELSE href

\* the filter in front of articleUrls.add
IsArticleLink(href) ==
    /\ includes(href, Keyword)
    /\ href # IndexUrl
    /\ ~includes(href, <<"#">>)
    /\ ~includes(href, Mailto)

RECURSIVE Discover(_, _)
\* Array.from(articleUrls): a Set keeps insertion order and no duplicates
Discover(hrefs, articleUrls) ==
    IF hrefs = <<>> THEN articleUrls
    ELSE LET href == Absolute(Head(hrefs))
         IN  IF Head(hrefs) # <<>> /\ IsArticleLink(href) /\ ~SeqHas(articleUrls, href)
             THEN Discover(Tail(hrefs), Append(articleUrls, href))
             ELSE Discover(Tail(hrefs), articleUrls)

\* ------------------------------------------------------------------------
\* State
\* ------------------------------------------------------------------------

VARIABLES
    articleCache,     \* const articleCache = new Map()
    lastCacheTime,    \* let lastCacheTime = null: <<>> is null, <<t>> a time
    now,              \* what Date.now() returns, in ms
    ticks,            \* how often the clock has advanced
    production,       \* process.env.NODE_ENV === 'production'
    googleConfigured, \* GOOGLE_API_KEY && GOOGLE_CSE_ID
    startup,          \* where the start-up block is: "boot", "preload", "up"
    refresh,          \* per caller, its refreshArticleCache() call in flight
    search,           \* per handler, its searchWorklineArticles() call
    calls,            \* how many requests the handlers have accepted
    hist              \* history of finished calls (read by no step)

vars == <<articleCache, lastCacheTime, now, ticks, production, googleConfigured,
          startup, refresh, search, calls, hist>>

\* app.command('/workline', ...) and app.message(...): one call in flight each
Handlers == {"command", "message"}

\* who calls refreshArticleCache: the start-up block and the two handlers
Owners == {"startup"} \cup Handlers

\* no refreshArticleCache() call in flight
IdleRefresh == [pc |-> "idle", urls |-> <<>>, i |-> 0, results |-> <<>>]

\* refreshArticleCache() up to its first await: the index page is requested
StartedRefresh == [pc |-> "index", urls |-> <<>>, i |-> 0, results |-> <<>>]

\* no searchWorklineArticles() call in flight
IdleSearch ==
    [pc |-> "idle", query |-> <<>>, items |-> <<>>, data |-> <<>>,
     googleResults |-> <<>>, cacheResults |-> <<>>, results |-> <<>>,
     error |-> FALSE]

\* a staleness test true from exactly 30 minutes on (not the code's)
StaleFromWindow(lct, t) == lct = <<>> \/ lct[1] = 0 \/ t - lct[1] >= CACHE_DURATION

\* !lastCacheTime || Date.now() - lastCacheTime > CACHE_DURATION
Stale(lct, t) == lct = <<>> \/ lct[1] = 0 \/ t - lct[1] > CACHE_DURATION

\* a batch one URL longer than the step of the loop (not the code's)
BatchOfWide(urls, i) == SubSeq(urls, i + 1, Min(i + batchSize + 1, Len(urls)))

\* urls.slice(i, i + batchSize)
BatchOf(urls, i) == SubSeq(urls, i + 1, Min(i + batchSize, Len(urls)))

\* every promise of the array has resolved
AllDone(results) == \A k \in 1..Len(results) : results[k] # <<>>

RECURSIVE InsertAll(_, _)
\* results.forEach(article => { if (storable) articleCache.set(article.url, article) })
InsertAll(cache, results) ==
    IF results = <<>> THEN cache
    ELSE LET article == Head(results)[1]
         IN  InsertAll(IF IsStorable(article)
                       THEN MapSet(cache, article.url, article)
                       ELSE cache,
                       Tail(results))

\* a loop head without the cap of 20 (not the code's)
LoopHeadUncapped(urls, i, cache, lct, t) ==
    IF i < Len(urls)
    THEN [r |-> [pc |-> "batch", urls |-> urls, i |-> i,
                 results |-> [k \in 1..Len(BatchOf(urls, i)) |-> <<>>]],
          cache |-> cache, lct |-> lct, done |-> FALSE]
    ELSE [r |-> IdleRefresh, cache |-> cache, lct |-> <<t>>, done |-> TRUE]

\* a refresh that stamps lastCacheTime when it starts a batch (not the code's)
LoopHeadStampingEarly(urls, i, cache, lct, t) ==
    IF i < Min(Len(urls), MaxArticles)
    THEN [r |-> [pc |-> "batch", urls |-> urls, i |-> i,
                 results |-> [k \in 1..Len(BatchOf(urls, i)) |-> <<>>]],
          cache |-> cache, lct |-> <<t>>, done |-> FALSE]
    ELSE [r |-> IdleRefresh, cache |-> cache, lct |-> <<t>>, done |-> TRUE]

\* the head of the for loop at index i: either the scrapes of the next batch
\* are started, or the loop is over and lastCacheTime = Date.now()
LoopHead(urls, i, cache, lct, t) ==
    IF i < Min(Len(urls), MaxArticles)
    THEN [r |-> [pc |-> "batch", urls |-> urls, i |-> i,
                 results |-> [k \in 1..Len(BatchOf(urls, i)) |-> <<>>]],
          cache |-> cache, lct |-> lct, done |-> FALSE]
    ELSE [r |-> IdleRefresh, cache |-> cache, lct |-> <<t>>, done |-> TRUE]

\* a catch block that forgets when the cache was last refreshed (not the
\* code's)
AbortedClearing(cache, lct, t) ==
    [r |-> IdleRefresh, cache |-> cache, lct |-> <<>>, done |-> TRUE]

\* a catch block that stamps lastCacheTime (not the code's)
AbortedStamping(cache, lct, t) ==
    [r |-> IdleRefresh, cache |-> cache, lct |-> <<t>>, done |-> TRUE]

\* the catch block of refreshArticleCache: log and return
Aborted(cache, lct, t) ==
    [r |-> IdleRefresh, cache |-> cache, lct |-> lct, done |-> TRUE]

\* searchCachedArticles after its staleness test, and the merge, sort and
\* slice of searchWorklineArticles that follow it in the same turn
Scored(sr, cache) ==
    IF cache # <<>> /\ ScoreThrows(sr.query)
    THEN [sr EXCEPT !.pc = "done", !.error = TRUE]
    ELSE LET cacheResults == CacheResults(cache, sr.query)
         IN  [sr EXCEPT !.pc = "done",
                        !.cacheResults = cacheResults,
                        !.results = TopResults(Merge(sr.googleResults, cacheResults))]

\* the results of the processed items, once every articleData is there
GoogleResults(items, data) ==
    [k \in 1..Len(items) |-> GoogleResult(items[k], data[k][1])]

\* what a step of o's refresh leaves: the refresh, the cache, lastCacheTime,
\* and, when the refresh has returned, what its caller does next in the same
\* turn (the handler scores the cache, the start-up block starts the app)
Settle(o, out) ==
    /\ articleCache' = IF out.done /\ o \in Handlers
                       THEN CacheAfterScoring(out.cache, search[o].query)
                       ELSE out.cache
    /\ lastCacheTime' = out.lct
    /\ refresh' = [refresh EXCEPT ![o] = out.r]
    /\ search' = IF out.done /\ o \in Handlers
                 THEN [search EXCEPT ![o] = Scored(search[o], out.cache)]
                 ELSE search
    /\ startup' = IF out.done /\ o = "startup" /\ startup = "preload"
                  THEN "up" ELSE startup
    /\ UNCHANGED <<now, ticks, production, googleConfigured>>

\* searchCachedArticles(query) of handler h, whose search record (Google
\* results in it) is sr, on the cache as it is now: the staleness test, then
\* either the refresh is started or the cache is scored
LocalPhase(h, sr, cache) ==
    /\ IF Stale(lastCacheTime, now)
       THEN /\ search' = [search EXCEPT ![h] = [sr EXCEPT !.pc = "refresh"]]
            /\ refresh' = [refresh EXCEPT ![h] = StartedRefresh]
            /\ articleCache' = cache
       ELSE /\ search' = [search EXCEPT ![h] = Scored(sr, cache)]
            /\ articleCache' = CacheAfterScoring(cache, sr.query)
            /\ UNCHANGED refresh
    /\ UNCHANGED <<lastCacheTime, now, ticks, production, googleConfigured, startup>>

\* ------------------------------------------------------------------------
\* The environment: the source site, the Google API, the users, the clock
\* ------------------------------------------------------------------------

\* how often the clock advances in a run
MaxTicks == 2

\* by how much the clock advances at once: after one advance a refresh is
\* exactly 30 minutes old (the edge of the window), after two it is older
Quantum == CACHE_DURATION

\* Date.now() when the process starts
StartTime == CACHE_DURATION

Path == <<"/","t","h","e","-","w","o","r","k","l","i","n","e","/">>

HrefA == Path \o <<"a">>
HrefB == Path \o <<"b">>
HrefC == Path \o <<"c">>
HrefD == Path \o <<"d">>
HrefE == Path \o <<"e">>
HrefF == Path \o <<"f">>
HrefG == Path \o <<"g">>
HrefH == Path \o <<"h">>

UrlA == Origin \o HrefA
UrlB == Origin \o HrefB
UrlC == Origin \o HrefC
UrlD == Origin \o HrefD
UrlE == Origin \o HrefE
UrlF == Origin \o HrefF
UrlG == Origin \o HrefG
UrlH == Origin \o HrefH

\* a page on which no selector of scrapeArticle finds anything
EmptyDoc ==
    [h1 |-> <<>>, titleTag |-> <<>>, classTitle |-> <<>>,
     metaDescription |-> <<>>, ogDescription |-> <<>>, excerpt |-> <<>>,
     firstParas |-> <<<<>>, <<>>, <<>>, <<>>, <<>>, <<>>>>,
     contentEls |-> [k \in 1..4 |-> [n |-> 0, text |-> <<>>]],
     bodyText |-> <<>>, tagTexts |-> <<>>,
     timeDatetime |-> <<>>, metaPublished |-> <<>>, dateText |-> <<>>]

\* the page behind each URL of the site, when its fetch succeeds
DocOf(url) ==
    CASE url = UrlA ->
           [EmptyDoc EXCEPT !.h1 = <<"H","y","b">>,
                            !.metaDescription = <<"h","y","b">>,
                            !.tagTexts = << <<"#","H","y","b">>, <<" ","h","y","b">>, <<"n","o">> >>,
                            !.bodyText = <<"h","y","b"," "," ","h","y","b">>,
                            !.timeDatetime = <<"2","0","2","4">>]
      [] url = UrlB ->
           [EmptyDoc EXCEPT !.titleTag = <<"H","y","b"," ","|"," ","F","l","e","x","O","S">>,
                            !.ogDescription = <<"h","y","b">>]
      [] url = UrlC ->
           [EmptyDoc EXCEPT !.classTitle = <<" ","H","y","b"," ">>]
      [] url = UrlD ->
           [EmptyDoc EXCEPT !.h1 = <<"A"," ","h","y","b">>,
                            !.contentEls = [k \in 1..4 |-> [n |-> IF k = 3 THEN 1 ELSE 0,
                                                            text |-> <<>>]]]
      [] url = UrlE ->
           [EmptyDoc EXCEPT !.h1 = <<"E">>, !.excerpt = <<" ","h","y","b">>]
      [] url = UrlF ->
           [EmptyDoc EXCEPT !.h1 = <<"F">>, !.bodyText = <<"h","y","b">>]
      [] url = UrlG ->
           [EmptyDoc EXCEPT !.h1 = <<"O","t","h","e","r">>]
      [] OTHER ->
           [EmptyDoc EXCEPT !.h1 = <<"H","y","b"," ","H">>]

\* what fetching an article page can do: fail (<<>>) or deliver its page
Pages(url) == {<<>>, <<DocOf(url)>>}

\* an item of the Google response for a URL
ItemFor(url) == [link |-> url, title |-> <<"G">>, snippet |-> <<"s">>]

\* the query the users type
QueryHyb == <<"H","y","b">>

\* ------------------------------------------------------------------------
\* Steps.  Each is one turn of the event loop: it starts when a request
\* arrives or an awaited fetch, timer or call of the Slack client completes
\* and runs until every continuation it has made ready has run.  The calls
\* of the Slack client (ack, respond, say) are taken to resolve.  The steps say nothing of the
\* two bookkeeping variables calls and hist: the specifications add them.
\* ------------------------------------------------------------------------

\* the start-up block: awaits the first refresh unless in production, where
\* the refresh runs in the background and the app starts at once
Boot ==
    /\ startup = "boot"
    /\ refresh' = [refresh EXCEPT !["startup"] = StartedRefresh]
    /\ startup' = IF production THEN "up" ELSE "preload"
    /\ UNCHANGED <<articleCache, lastCacheTime, now, ticks, production,
                   googleConfigured, search>>

\* axios.get of the index page rejects (or cheerio.load throws)
RefreshIndexFail(o) ==
    /\ refresh[o].pc = "index"
    /\ Settle(o, Aborted(articleCache, lastCacheTime, now))

\* the index page arrives: links are discovered, the first batch is started
RefreshIndexOk(o, hrefs) ==
    /\ refresh[o].pc = "index"
    /\ Settle(o, LoopHead(Discover(hrefs, <<>>), 0, articleCache, lastCacheTime, now))

\* the k-th scrape of the current batch returns; with the last one the batch
\* is inserted and the loop goes on to its delay or its end
RefreshScrapeDone(o, k, page) ==
    LET r == refresh[o]
        article == scrapeArticle(r.urls[r.i + k], page, now)
        results == [r.results EXCEPT ![k] = <<article>>]
    IN  /\ r.pc = "batch"
        /\ k \in 1..Len(r.results)
        /\ r.results[k] = <<>>
        /\ IF ~AllDone(results)
           THEN Settle(o, [r |-> [r EXCEPT !.results = results],
                           cache |-> articleCache, lct |-> lastCacheTime,
                           done |-> FALSE])
           ELSE LET cache == InsertAll(articleCache, results)
                IN  IF r.i + batchSize < Len(r.urls)
                    THEN Settle(o, [r |-> [r EXCEPT !.pc = "delay", !.results = <<>>],
                                    cache |-> cache, lct |-> lastCacheTime,
                                    done |-> FALSE])
                    ELSE Settle(o, LoopHead(r.urls, r.i + batchSize, cache,
                                            lastCacheTime, now))

\* the 2-second timer between two batches fires
RefreshDelayDone(o) ==
    LET r == refresh[o]
    IN  /\ r.pc = "delay"
        /\ Settle(o, LoopHead(r.urls, r.i + batchSize, articleCache, lastCacheTime, now))

\* /^(hi|hello|hey|help)$/i
IsGreeting(query) ==
    toLowerCase(query) \in {<<"h","i">>, <<"h","e","l","l","o">>,
                            <<"h","e","y">>, <<"h","e","l","p">>}

\* the handler goes on to searchWorklineArticles with this text
Accepts(h, text) ==
    IF h = "command"
    THEN trim(text) # <<>>
    ELSE Len(trim(text)) >= 3 /\ ~IsGreeting(trim(text))

\* a slash command or a direct message arrives: the handler runs up to its
\* first await, which is ack() for the command and, the text being a query,
\* say(notice) for the message
Arrive(h, text) ==
    /\ startup = "up"
    /\ search[h].pc = "idle"
    /\ Accepts(h, text)
    /\ search' = [search EXCEPT ![h] =
                     [IdleSearch EXCEPT !.pc = IF h = "command" THEN "ack" ELSE "notice",
                                        !.query = trim(text)]]
    /\ UNCHANGED <<articleCache, lastCacheTime, now, ticks, production,
                   googleConfigured, startup, refresh>>

\* the awaited ack() of the command handler resolves: the text being a
\* query, the handler goes on to await respond(notice)
Acked(h) ==
    /\ search[h].pc = "ack"
    /\ search' = [search EXCEPT ![h] = [search[h] EXCEPT !.pc = "notice"]]
    /\ UNCHANGED <<articleCache, lastCacheTime, now, ticks, production,
                   googleConfigured, startup, refresh>>

\* the awaited notice resolves: the handler calls searchWorklineArticles,
\* whose searchWithGoogle returns [] at once without credentials and else
\* sends the API request
Invoke(h) ==
    LET sr == search[h]
    IN  /\ search[h].pc = "notice"
        /\ IF googleConfigured
           THEN /\ search' = [search EXCEPT ![h] = [sr EXCEPT !.pc = "google"]]
                /\ UNCHANGED <<articleCache, lastCacheTime, now, ticks, production,
                               googleConfigured, startup, refresh>>
           ELSE LocalPhase(h, sr, articleCache)

\* the API request fails: the catch block returns []
GoogleFail(h) ==
    /\ search[h].pc = "google"
    /\ LocalPhase(h, search[h], articleCache)

\* the API answers without items
GoogleNoItems(h) ==
    /\ search[h].pc = "google"
    /\ LocalPhase(h, search[h], articleCache)

\* the API answers with items: the first 5 are looked up in the cache, and
\* those not cached are requested from the site, all in this turn
GoogleItems(h, response) ==
    LET items == Take(response, GoogleSlice)
        data == [k \in 1..Len(items) |->
                    IF MapHas(articleCache, items[k].link)
                    THEN <<MapGet(articleCache, items[k].link)>>
                    ELSE <<>>]
        sr == [search[h] EXCEPT !.items = items, !.data = data]
    IN  /\ search[h].pc = "google"
        /\ response # <<>>
        /\ IF AllDone(data)
           THEN LocalPhase(h, [sr EXCEPT !.googleResults = GoogleResults(items, data)],
                           articleCache)
           ELSE /\ search' = [search EXCEPT ![h] = [sr EXCEPT !.pc = "scrapes"]]
                /\ UNCHANGED <<articleCache, lastCacheTime, now, ticks, production,
                               googleConfigured, startup, refresh>>

\* the scrape of the k-th item returns: its record is cached unless it is
\* the placeholder; with the last one searchWithGoogle returns
GoogleScrapeDone(h, k, page) ==
    LET sr == search[h]
        articleData == scrapeArticle(sr.items[k].link, page, now)
        cache == IF IsStorable(articleData)
                 THEN MapSet(articleCache, sr.items[k].link, articleData)
                 ELSE articleCache
        data == [sr.data EXCEPT ![k] = <<articleData>>]
    IN  /\ sr.pc = "scrapes"
        /\ k \in 1..Len(sr.data)
        /\ sr.data[k] = <<>>
        /\ IF AllDone(data)
           THEN LocalPhase(h, [sr EXCEPT !.data = data,
                                         !.googleResults = GoogleResults(sr.items, data)],
                           cache)
           ELSE /\ search' = [search EXCEPT ![h] = [sr EXCEPT !.data = data]]
                /\ articleCache' = cache
                /\ UNCHANGED <<lastCacheTime, now, ticks, production,
                               googleConfigured, startup, refresh>>

\* the scrapes of o's refresh that have not returned: positions in its batch
PendingOfRefresh(o) ==
    IF refresh[o].pc = "batch"
    THEN {k \in 1..Len(refresh[o].results) : refresh[o].results[k] = <<>>}
    ELSE {}

\* the scrapes of h's Google items that have not returned: positions in items
PendingOfSearch(h) ==
    IF search[h].pc = "scrapes"
    THEN {k \in 1..Len(search[h].data) : search[h].data[k] = <<>>}
    ELSE {}

\* the handler has sent its answer
Respond(h) ==
    /\ search[h].pc = "done"
    /\ search' = [search EXCEPT ![h] = IdleSearch]
    /\ UNCHANGED <<articleCache, lastCacheTime, now, ticks, production,
                   googleConfigured, startup, refresh>>

\* time passes
Tick ==
    /\ ticks < MaxTicks
    /\ now' = now + Quantum
    /\ ticks' = ticks + 1
    /\ UNCHANGED <<articleCache, lastCacheTime, production, googleConfigured,
                   startup, refresh, search, calls, hist>>

\* ------------------------------------------------------------------------
\* Spec: both handlers and the start-up block run concurrently
\* ------------------------------------------------------------------------

\* no call has finished yet
NoHist == [prev |-> <<>>, cache0 |-> <<>>, pages |-> <<>>, refreshed |-> FALSE]

\* the index page: hrefs of the matched elements (one without href, the
\* index itself, a fragment link, a mailto link, a page off the keyword and
\* a repeated link among them)
IndexPage ==
    <<HrefA, <<>>, IndexUrl, HrefB, HrefA \o <<"#","x">>, Mailto \o Keyword,
      <<"/","a","b","o","u","t">>, UrlC, HrefA>>

\* what the Google API answers when it answers with items
Responses == {<<ItemFor(UrlA)>>}

Init ==
    /\ articleCache = <<>>
    /\ lastCacheTime = <<>>
    /\ now = StartTime
    /\ ticks = 0
    /\ production \in BOOLEAN
    /\ googleConfigured \in BOOLEAN
    /\ startup = "boot"
    /\ refresh = [o \in Owners |-> IdleRefresh]
    /\ search = [h \in Handlers |-> IdleSearch]
    /\ calls = 0
    /\ hist = NoHist

\* the bookkeeping variables
book == <<calls, hist>>

\* how many requests arrive in a run
MaxCalls == 2

\* a request is accepted and counted
Call(h, text) ==
    /\ calls < MaxCalls
    /\ Arrive(h, text)
    /\ calls' = calls + 1
    /\ UNCHANGED hist

Next ==
    \/ Boot /\ UNCHANGED book
    \/ \E o \in Owners : RefreshIndexFail(o) /\ UNCHANGED book
    \/ \E o \in Owners : RefreshIndexOk(o, IndexPage) /\ UNCHANGED book
    \/ \E o \in Owners : \E k \in PendingOfRefresh(o) :
          \E page \in Pages(refresh[o].urls[refresh[o].i + k]) :
             RefreshScrapeDone(o, k, page) /\ UNCHANGED book
    \/ \E o \in Owners : RefreshDelayDone(o) /\ UNCHANGED book
    \/ \E h \in Handlers : Call(h, QueryHyb)
    \/ \E h \in Handlers : Acked(h) /\ UNCHANGED book
    \/ \E h \in Handlers : Invoke(h) /\ UNCHANGED book
    \/ \E h \in Handlers : GoogleFail(h) /\ UNCHANGED book
    \/ \E h \in Handlers : GoogleNoItems(h) /\ UNCHANGED book
    \/ \E h \in Handlers, response \in Responses :
          GoogleItems(h, response) /\ UNCHANGED book
    \/ \E h \in Handlers : \E k \in PendingOfSearch(h) :
          \E page \in Pages(search[h].items[k].link) :
             GoogleScrapeDone(h, k, page) /\ UNCHANGED book
    \/ \E h \in Handlers : Respond(h) /\ UNCHANGED book

\* the app with its two handlers and its start-up block running concurrently,
\* within one instant of the clock
Spec == Init /\ [][Next]_vars

\* ------------------------------------------------------------------------
\* SpecClock: the app without Google credentials, with time passing
\* ------------------------------------------------------------------------

InitClock == Init /\ ~googleConfigured

NextClock ==
    \/ Boot /\ UNCHANGED book
    \/ \E o \in Owners : RefreshIndexFail(o) /\ UNCHANGED book
    \/ \E o \in Owners : RefreshIndexOk(o, IndexPage) /\ UNCHANGED book
    \/ \E o \in Owners : \E k \in PendingOfRefresh(o) :
          \E page \in Pages(refresh[o].urls[refresh[o].i + k]) :
             RefreshScrapeDone(o, k, page) /\ UNCHANGED book
    \/ \E o \in Owners : RefreshDelayDone(o) /\ UNCHANGED book
    \/ Call("command", QueryHyb)
    \/ Acked("command") /\ UNCHANGED book
    \/ Invoke("command") /\ UNCHANGED book
    \/ Respond("command") /\ UNCHANGED book
    \/ Tick /\ UNCHANGED book

SpecClock == InitClock /\ [][NextClock]_vars

\* ------------------------------------------------------------------------
\* SpecSeq: one request at a time on a larger site, with Google; the start-up
\* block preloads the cache, and the history variable remembers the call
\* that finished last
\* ------------------------------------------------------------------------

\* the index page of the larger site: five articles, three batches
IndexPageSeq == <<HrefA, HrefB, HrefC, HrefD, HrefE>>

\* what the Google API answers there: a page off the index, the same page
\* twice, and six items of which the code processes five
ResponsesSeq ==
    {<<ItemFor(UrlH)>>,
     <<ItemFor(UrlH), ItemFor(UrlH)>>,
     <<ItemFor(UrlH), ItemFor(UrlB), ItemFor(UrlC), ItemFor(UrlD), ItemFor(UrlE),
       ItemFor(UrlA)>>}

\* what fetching an article page can do there: only the pages of A and H
\* may fail
PagesSeq(url) == IF url \in {UrlA, UrlH} THEN Pages(url) ELSE {<<DocOf(url)>>}

\* what the history keeps of a page request of the running call
PageSeen(page) ==
    IF page = <<>> THEN [kind |-> "failed"] ELSE [kind |-> "page", doc |-> page[1]]

\* the history after a step of the running call of the slash command: has
\* it started a refresh, and what did its page requests return
Noted(pages) ==
    [hist EXCEPT !.pages = pages,
                 !.refreshed = @ \/ search'["command"].pc = "refresh"]

\* the history after the call has been answered
Remembered ==
    [NoHist EXCEPT !.prev = <<[query |-> search["command"].query,
                               items |-> search["command"].items,
                               pages |-> hist.pages,
                               refreshed |-> hist.refreshed,
                               cache0 |-> hist.cache0,
                               cache1 |-> articleCache,
                               results |-> search["command"].results]>>]

CallSeq(text) ==
    /\ calls < MaxCalls
    /\ Arrive("command", text)
    /\ calls' = calls + 1
    /\ UNCHANGED hist

InvokeSeq ==
    /\ Invoke("command")
    /\ hist' = [Noted(<<>>) EXCEPT !.cache0 = articleCache]
    /\ UNCHANGED calls

GoogleItemsSeq(response) ==
    /\ GoogleItems("command", response)
    /\ hist' = Noted([k \in 1..Len(search'["command"].items) |->
                        IF MapHas(articleCache, search'["command"].items[k].link)
                        THEN [kind |-> "cached"]
                        ELSE [kind |-> "pending"]])
    /\ UNCHANGED calls

GoogleScrapeDoneSeq(k, page) ==
    /\ GoogleScrapeDone("command", k, page)
    /\ hist' = Noted([hist.pages EXCEPT ![k] = PageSeen(page)])
    /\ UNCHANGED calls

RespondSeq ==
    /\ Respond("command")
    /\ hist' = Remembered
    /\ UNCHANGED calls

InitSeq == Init /\ ~production

NextSeq ==
    \/ Boot /\ UNCHANGED book
    \/ \E o \in Owners : RefreshIndexFail(o) /\ UNCHANGED book
    \/ \E o \in Owners : RefreshIndexOk(o, IndexPageSeq) /\ UNCHANGED book
    \/ \E o \in Owners : \E k \in PendingOfRefresh(o) :
          \E page \in PagesSeq(refresh[o].urls[refresh[o].i + k]) :
             RefreshScrapeDone(o, k, page) /\ UNCHANGED book
    \/ \E o \in Owners : RefreshDelayDone(o) /\ UNCHANGED book
    \/ CallSeq(QueryHyb)
    \/ Acked("command") /\ UNCHANGED book
    \/ InvokeSeq
    \/ GoogleFail("command") /\ hist' = Noted(hist.pages) /\ UNCHANGED calls
    \/ GoogleNoItems("command") /\ hist' = Noted(hist.pages) /\ UNCHANGED calls
    \/ \E response \in ResponsesSeq : GoogleItemsSeq(response)
    \/ \E k \in PendingOfSearch("command") :
          \E page \in PagesSeq(search["command"].items[k].link) :
             GoogleScrapeDoneSeq(k, page)
    \/ RespondSeq

SpecSeq == InitSeq /\ [][NextSeq]_vars

\* ------------------------------------------------------------------------
\* The scorer on its own: a fresh cache of one record, no Google
\* credentials, and slash commands with queries of every kind
\* ------------------------------------------------------------------------

\* pages whose records the scorer is tried on
ScoreDocs ==
    {DocOf(UrlA), DocOf(UrlG),
     [EmptyDoc EXCEPT !.h1 = <<"X">>,
                      !.bodyText = <<"h","y","b"," ","h","y","b"," ","h","y","b"," ",
                                     "h","y","b"," ","h","y","b">>],
     [EmptyDoc EXCEPT !.h1 = <<"C","+","+">>, !.bodyText = <<"(","h","r">>],
     [EmptyDoc EXCEPT !.h1 = <<"a","a","a","a">>],
     [EmptyDoc EXCEPT !.h1 = <<"H","a","b">>, !.metaDescription = <<"h","y","b","b">>],
     [EmptyDoc EXCEPT !.h1 = <<"f","o","o">>, !.ogDescription = <<"H","y","b">>]}

\* the caches there: empty, or the record of one of the pages
ScoreCaches ==
    {<<>>} \cup {MapSet(<<>>, UrlA, ScrapeResult(UrlA, doc, StartTime)) : doc \in ScoreDocs}

\* what the users type there
ScoreQueries ==
    {<<"H","y","b">>,
     <<" ","h","y","b"," ","a","b"," ">>,
     <<"a","b"," ","c">>,
     <<"h","y","b"," "," ","f","o","o">>,
     <<"h","y","b","\n","f","o","o">>,
     <<"a","a","a">>,
     <<"h",".","b">>,
     <<"y","b","+">>,
     <<"c","+","+">>,
     <<"(","h","r">>}

InitScore ==
    /\ articleCache \in ScoreCaches
    /\ lastCacheTime = <<StartTime>>
    /\ now = StartTime
    /\ ticks = 0
    /\ production = FALSE
    /\ googleConfigured = FALSE
    /\ startup = "up"
    /\ refresh = [o \in Owners |-> IdleRefresh]
    /\ search = [h \in Handlers |-> IdleSearch]
    /\ calls = 0
    /\ hist = NoHist

NextScore ==
    \/ \E text \in ScoreQueries : Call("command", text)
    \/ Acked("command") /\ UNCHANGED book
    \/ Invoke("command") /\ UNCHANGED book
    \/ Respond("command") /\ UNCHANGED book

SpecScore == InitScore /\ [][NextScore]_vars

\* ------------------------------------------------------------------------
\* A site with more articles than a refresh takes: the pre-load refresh of
\* the start-up block, nothing else
\* ------------------------------------------------------------------------

\* how many article links the index page has there
DiscoveredCap == 22

Digits == <<"0","1","2","3","4","5","6","7","8","9">>

\* the n-th link of that index page, and its URL
HrefN(n) == Path \o <<"n", Digits[(n \div 10) + 1], Digits[(n % 10) + 1]>>

UrlN(n) == Origin \o HrefN(n)

IndexPageCap == [n \in 1..DiscoveredCap |-> HrefN(n)]

\* the pages that may fail to load there
PagesCap(url) ==
    IF url \in {UrlN(1), UrlN(2), UrlN(20)} THEN Pages(url) ELSE {<<DocOf(url)>>}

InitCap == Init /\ ~production /\ ~googleConfigured

NextCap ==
    \/ Boot /\ UNCHANGED book
    \/ RefreshIndexOk("startup", IndexPageCap) /\ UNCHANGED book
    \/ \E k \in PendingOfRefresh("startup") :
          \E page \in PagesCap(refresh["startup"].urls[refresh["startup"].i + k]) :
             RefreshScrapeDone("startup", k, page) /\ UNCHANGED book
    \/ RefreshDelayDone("startup") /\ UNCHANGED book

SpecCap == InitCap /\ [][NextCap]_vars

\* ------------------------------------------------------------------------
\* The extractor on its own: the pre-load refresh of a site of two articles
\* whose pages are of every kind
\* ------------------------------------------------------------------------

\* how long the longest title on that site is
LongTitle == 160

IndexPageScrape == <<HrefA, HrefB>>

\* the pages an article URL may deliver there
ScrapeDocs ==
    {EmptyDoc,
     DocOf(UrlA), DocOf(UrlB), DocOf(UrlC), DocOf(UrlD),
     [EmptyDoc EXCEPT !.h1 = <<" ", "\n">>, !.bodyText = <<"b","o","d","y">>],
     [EmptyDoc EXCEPT !.h1 = [k \in 1..LongTitle |-> "t"]],
     [EmptyDoc EXCEPT !.titleTag = <<" ","|"," ","F","l","e","x","O","S">>,
                      !.metaDescription = <<"s">>],
     [EmptyDoc EXCEPT !.classTitle = <<"A","r","t","i","c","l","e">>],
     [EmptyDoc EXCEPT !.h1 = <<"T">>, !.metaDescription = [k \in 1..301 |-> "s"]]}

\* what fetching an article page can do there
PagesScrape == {<<>>} \cup {<<doc>> : doc \in ScrapeDocs}

InitScrape == Init /\ ~production /\ ~googleConfigured

NextScrape ==
    \/ Boot /\ UNCHANGED book
    \/ RefreshIndexFail("startup") /\ UNCHANGED book
    \/ RefreshIndexOk("startup", IndexPageScrape) /\ UNCHANGED book
    \/ \E k \in PendingOfRefresh("startup") : \E page \in PagesScrape :
          RefreshScrapeDone("startup", k, page) /\ UNCHANGED book

SpecScrape == InitScrape /\ [][NextScrape]_vars

\* ------------------------------------------------------------------------
\* Link discovery on its own: the pre-load refresh on index pages of
\* several kinds
\* ------------------------------------------------------------------------

\* an href relative to the index page, without a leading slash
HrefRelative == <<"t","h","e","-","w","o","r","k","l","i","n","e","/","r">>

\* the index pages there: hrefs of the matched elements, in document order
\* per selector
IndexPages ==
    {IndexPage,
     <<>>,
     <<HrefA, HrefRelative, HrefA>>,
     <<UrlH, Path, <<"/","w","o","r","k","l","i","n","e","?","p","=","2">>, HrefB>>,
     <<HrefC, Mailto \o Keyword, HrefD, HrefC>>,
     <<HrefE, <<"#","w","o","r","k","l","i","n","e">>, UrlH, HrefA>>,
     <<HrefRelative>>,
     <<<<"/","a","b","o","u","t">>, HrefD, HrefB, <<>>, HrefC>>}

InitDiscover == Init /\ ~googleConfigured

NextDiscover ==
    \/ Boot /\ UNCHANGED book
    \/ RefreshIndexFail("startup") /\ UNCHANGED book
    \/ \E hrefs \in IndexPages : RefreshIndexOk("startup", hrefs) /\ UNCHANGED book
    \/ \E k \in PendingOfRefresh("startup") :
          \E page \in Pages(refresh["startup"].urls[refresh["startup"].i + k]) :
             RefreshScrapeDone("startup", k, page) /\ UNCHANGED book
    \/ RefreshDelayDone("startup") /\ UNCHANGED book

SpecDiscover == InitDiscover /\ [][NextDiscover]_vars

\* ------------------------------------------------------------------------
\* SpecStamp: both handlers and the start-up block run concurrently while
\* time passes, with Google credentials, on a site of one article
\* ------------------------------------------------------------------------

\* the index page there: one article
IndexPageStamp == <<HrefA>>

\* what the Google API answers there: a page off the index
ResponsesStamp == {<<ItemFor(UrlH)>>}

InitStamp == Init /\ googleConfigured

NextStamp ==
    \/ Boot /\ UNCHANGED book
    \/ \E o \in Owners : RefreshIndexFail(o) /\ UNCHANGED book
    \/ \E o \in Owners : RefreshIndexOk(o, IndexPageStamp) /\ UNCHANGED book
    \/ \E o \in Owners : \E k \in PendingOfRefresh(o) :
          \E page \in Pages(refresh[o].urls[refresh[o].i + k]) :
             RefreshScrapeDone(o, k, page) /\ UNCHANGED book
    \/ \E h \in Handlers : Call(h, QueryHyb)
    \/ \E h \in Handlers : Acked(h) /\ UNCHANGED book
    \/ \E h \in Handlers : Invoke(h) /\ UNCHANGED book
    \/ \E h \in Handlers : GoogleFail(h) /\ UNCHANGED book
    \/ \E h \in Handlers, response \in ResponsesStamp :
          GoogleItems(h, response) /\ UNCHANGED book
    \/ \E h \in Handlers : \E k \in PendingOfSearch(h) :
          \E page \in Pages(search[h].items[k].link) :
             GoogleScrapeDone(h, k, page) /\ UNCHANGED book
    \/ \E h \in Handlers : Respond(h) /\ UNCHANGED book
    \/ Tick /\ UNCHANGED book

SpecStamp == InitStamp /\ [][NextStamp]_vars

\* ------------------------------------------------------------------------
\* Claims
\* ------------------------------------------------------------------------

\* the refreshes in flight
InFlight == {o \in Owners : refresh[o].pc # "idle"}

\* the article pages requested from the site and not yet answered
Outstanding ==
    UNION {{<<o, k>> : k \in PendingOfRefresh(o)} : o \in Owners}

OutstandingOfSearches ==
    UNION {{<<h, k>> : k \in PendingOfSearch(h)} : h \in Handlers}

\* C1: a refresh whose index page cannot be fetched returns to its caller
\* without throwing (the handler goes on to score the cache, the start-up
\* block starts the app) and leaves the cache and lastCacheTime as they were,
\* so a stale cache is still stale for the next search.
C1_AbortLeavesCache ==
    [][\A o \in Owners :
          RefreshIndexFail(o) =>
             /\ articleCache' = articleCache
             /\ lastCacheTime' = lastCacheTime
             /\ Stale(lastCacheTime, now) => Stale(lastCacheTime', now')
             /\ refresh'[o].pc = "idle"
             /\ o \in Handlers => search'[o].pc = "done"
             /\ (o = "startup" /\ startup = "preload") => startup' = "up"]_vars

\* a search has returned although no refresh has ever completed, and the
\* cache it scored is not empty: its own refresh was aborted
C1_Witness ==
    \E h \in Handlers :
       /\ search[h].pc = "done"
       /\ lastCacheTime = <<>>
       /\ articleCache # <<>>

\* C2: the set of cache keys only grows, whatever step is taken.
C2_KeysOnlyGrow ==
    [][MapKeys(articleCache) \subseteq MapKeys(articleCache')]_vars

\* a refresh holds the placeholder of a failed scrape for a URL that is a
\* cache key
C2_Witness ==
    \E o \in Owners : \E k \in 1..Len(refresh[o].results) :
       /\ refresh[o].results[k] # <<>>
       /\ refresh[o].results[k][1].title = PlaceholderTitle
       /\ MapHas(articleCache, refresh[o].results[k][1].url)

\* C3: no cache entry is the placeholder record of a failed scrape.
C3_NoPlaceholderCached ==
    \A i \in 1..Len(articleCache) : articleCache[i].value.title # PlaceholderTitle

\* the scrape of a Google item has failed, the scrape of a refresh has
\* failed, and the cache holds an entry
C3_Witness ==
    /\ articleCache # <<>>
    /\ \E h \in Handlers : \E k \in 1..Len(search[h].data) :
          /\ search[h].data[k] # <<>>
          /\ search[h].data[k][1].title = PlaceholderTitle
    /\ \E o \in Owners : \E k \in 1..Len(refresh[o].results) :
          /\ refresh[o].results[k] # <<>>
          /\ refresh[o].results[k][1].title = PlaceholderTitle

\* the step in which handler h makes the staleness test of its search
TestsStaleness(h) ==
    /\ search[h].pc \in {"notice", "google", "scrapes"}
    /\ search'[h].pc \in {"refresh", "done"}

\* C4: the staleness test of a search starts a refresh, and the search waits
\* for it, if and only if lastCacheTime is null or more than 30 minutes
\* old; the search scores the cache in the step its refresh returns, not
\* before.
C4_RefreshIffStale ==
    [][\A h \in Handlers :
          /\ TestsStaleness(h) =>
                ((search'[h].pc = "refresh" /\ refresh'[h].pc = "index")
                 <=> (lastCacheTime = <<>> \/ now - lastCacheTime[1] > 30 * 60 * 1000))
          /\ TestsStaleness(h) =>
                ((search'[h].pc = "done" /\ refresh'[h] = refresh[h])
                 <=> ~(lastCacheTime = <<>> \/ now - lastCacheTime[1] > 30 * 60 * 1000))
          /\ (search[h].pc = "refresh" /\ search'[h].pc # "refresh") =>
                /\ refresh[h].pc # "idle"
                /\ refresh'[h].pc = "idle"
                /\ search'[h].pc = "done"
          /\ search[h].pc = "refresh" => refresh[h].pc # "idle"]_vars

\* after a preloaded cache went stale, a search has started a refresh
C4_Witness ==
    /\ ~production
    /\ lastCacheTime # <<>>
    /\ now - lastCacheTime[1] > CACHE_DURATION
    /\ search["command"].pc = "refresh"

\* C5: at most one refresh is in flight.
C5_OneRefreshInFlight == Cardinality(InFlight) <= 1

\* C6 as first stated: at most 2 article pages are requested and unanswered.
C6_AtMostTwoOutstanding ==
    Cardinality(Outstanding) + Cardinality(OutstandingOfSearches) <= 2

\* C6: a refresh has at most 2 article pages of its own outstanding, and it
\* leaves a batch (for the delay, the next batch or its end) only in the
\* step in which the last outstanding page of that batch is answered.
C6_BatchesDoNotOverlap ==
    [][\A o \in Owners :
          /\ Cardinality(PendingOfRefresh(o)) <= 2
          /\ refresh[o].pc = "batch" =>
                /\ Len(refresh[o].results) <= 2
                /\ PendingOfRefresh(o) # {}
          /\ (refresh[o].pc = "batch"
              /\ (refresh'[o].pc # "batch" \/ refresh'[o].i # refresh[o].i)) =>
                Cardinality(PendingOfRefresh(o)) = 1
          /\ (refresh'[o].pc = "batch" /\ refresh[o].pc # "batch") =>
                /\ refresh[o].pc \in {"index", "delay"}
                /\ PendingOfRefresh(o) = {}]_vars

\* a refresh is in its second batch while more than 2 pages are outstanding
\* in all
C6_Witness ==
    /\ \E o \in Owners : refresh[o].pc = "batch" /\ refresh[o].i = batchSize
    /\ Cardinality(Outstanding) + Cardinality(OutstandingOfSearches) > 2

\* the search of the slash command, once it has returned
Returned == search["command"].pc = "done"

\* the merged list of a returned search: the external hits, then the local
\* hits whose URL no external hit has
MergedOf(sr) ==
    LET Fresh(r) == \A k \in 1..Len(sr.googleResults) : sr.googleResults[k].url # r.url
    IN  sr.googleResults \o SelectSeq(sr.cacheResults, Fresh)

\* how many entries of list m go before its i-th entry when m is sorted by
\* score, highest first, entries of equal score in the order of m
RankIn(m, i) ==
    Cardinality({j \in 1..Len(m) :
                   \/ m[j].score > m[i].score
                   \/ m[j].score = m[i].score /\ j < i})

\* C7: no URL occurs twice in the list a search returns, and the entry of a
\* URL that is both an external and a local hit is the external one.
C7_NoUrlTwice ==
    Returned =>
       LET out == search["command"].results
       IN  /\ \A i, j \in 1..Len(out) : out[i].url = out[j].url => i = j
           /\ \A i \in 1..Len(out) :
                 (\E k \in 1..Len(search["command"].googleResults) :
                     search["command"].googleResults[k].url = out[i].url)
                 => out[i].source = "google"

\* C8: the list a search returns has min(5, n) entries, n the length of the
\* merged list, and its k-th entry is the entry of the merged list that k-1
\* others go before by score, ties in merged order.
C8_TopFiveOfStableSort ==
    Returned =>
       LET m == MergedOf(search["command"])
           out == search["command"].results
       IN  /\ Len(out) = IF Len(m) < 5 THEN Len(m) ELSE 5
           /\ Len(out) <= 5
           /\ \A i \in 1..Len(m) :
                 RankIn(m, i) < 5 => out[RankIn(m, i) + 1] = m[i]

\* a search has returned 5 of more than 5 merged entries, an external hit
\* and a local hit of the same score among them, the external one first
C8_Witness ==
    /\ Returned
    /\ Len(MergedOf(search["command"])) > 5
    /\ \E k \in 1..4 :
          /\ search["command"].results[k].score = search["command"].results[k + 1].score
          /\ search["command"].results[k].source = "google"
          /\ search["command"].results[k + 1].source = "cache"

\* C9: in the list a search returns no local hit stands before an external
\* hit, and no external hit is missing from it while a local hit is in it.
C9_ExternalFirst ==
    Returned =>
       LET out == search["command"].results
           google == search["command"].googleResults
       IN  /\ \A i, j \in 1..Len(out) :
                 (out[i].source = "cache" /\ out[j].source = "google") => j < i
           /\ (\E i \in 1..Len(out) : out[i].source = "cache") =>
                 \A k \in 1..Len(google) : \E i \in 1..Len(out) : out[i] = google[k]

\* the URL, score and source tag of every entry of a result list, in order
Listing(results) ==
    [k \in 1..Len(results) |->
        <<results[k].url, results[k].score, results[k].source>>]

\* the running call of the slash command and the call before it had the same
\* query and the same answer of the external API, neither found the cache
\* stale, and the cache was not changed between them
Repeated ==
    /\ hist.prev # <<>>
    /\ hist.prev[1].query = search["command"].query
    /\ hist.prev[1].items = search["command"].items
    /\ ~hist.prev[1].refreshed
    /\ ~hist.refreshed
    /\ hist.cache0 = hist.prev[1].cache1

\* C10: a search repeated within the staleness window, the cache not changed
\* in between and the external API answering the same, returns the same
\* URLs, scores and source tags in the same order.
C10_RepeatedSearchSameListing ==
    (Returned /\ Repeated) =>
       Listing(search["command"].results) = Listing(hist.prev[1].results)

\* a repeated search has returned; the page of its external hit could not be
\* fetched in the first call and was fetched and cached in the second
C10_Witness ==
    /\ Returned
    /\ Repeated
    /\ search["command"].results # <<>>
    /\ \E k \in 1..Len(hist.pages) :
          /\ hist.pages[k].kind = "page"
          /\ hist.prev[1].pages[k].kind = "failed"
          /\ MapHas(articleCache, search["command"].items[k].link)
          /\ ~MapHas(hist.cache0, search["command"].items[k].link)

RECURSIVE WordsFrom(_, _, _)
\* the pieces of s between white space, cur being the piece read at i
WordsFrom(s, i, cur) ==
    IF i > Len(s) THEN <<cur>>
    ELSE IF IsSpace(s[i])
         THEN <<cur>> \o WordsFrom(s, i + 1, <<>>)
         ELSE WordsFrom(s, i + 1, Append(cur, s[i]))

\* the lowercased white-space-separated terms of length > 2 of a query
StatedTerms(query) ==
    LET Long(w) == Len(w) > 2
    IN  SelectSeq(WordsFrom(toLowerCase(query), 1, <<>>), Long)

RECURSIVE OccurrencesFrom(_, _, _)
\* how often term occurs in text as a substring from position i on, an
\* occurrence starting where the one before it ended at the earliest
OccurrencesFrom(text, term, i) ==
    IF i + Len(term) - 1 > Len(text) THEN 0
    ELSE IF OccursAt(text, term, i)
         THEN 1 + OccurrencesFrom(text, term, i + Len(term))
         ELSE OccurrencesFrom(text, term, i + 1)

RECURSIVE StatedScore(_, _)
\* the score as stated: per term 5 for the title, 3 for the summary, 2 for
\* a topic, and the occurrences in 'title summary body', 3 at most
StatedScore(article, terms) ==
    IF terms = <<>> THEN 0
    ELSE LET term == Head(terms)
             text == toLowerCase(article.title \o <<" ">> \o article.summary
                                 \o <<" ">> \o article.content)
             n == OccurrencesFrom(text, term, 1)
         IN  (IF includes(toLowerCase(article.title), term) THEN 5 ELSE 0)
           + (IF includes(toLowerCase(article.summary), term) THEN 3 ELSE 0)
           + (IF \E i \in 1..Len(article.topics) : includes(article.topics[i], term)
              THEN 2 ELSE 0)
           + (IF n < 3 THEN n ELSE 3)
           + StatedScore(article, Tail(terms))

\* C11: the local results of a search are the cached records whose stated
\* score for the query is above 0, each with that score; none when every
\* term of the query has length <= 2.
C11_ScoreAsStated ==
    Returned =>
       LET sr == search["command"]
           Hit(e) == StatedScore(e.value, StatedTerms(sr.query)) > 0
           hits == SelectSeq(articleCache, Hit)
       IN  /\ ~sr.error
           /\ Len(sr.cacheResults) = Len(hits)
           /\ \A e \in {hits[i] : i \in 1..Len(hits)} :
                 \E k \in 1..Len(sr.cacheResults) :
                    /\ sr.cacheResults[k].url = e.key
                    /\ sr.cacheResults[k].score = StatedScore(e.value, StatedTerms(sr.query))
           /\ StatedTerms(sr.query) = <<>> => sr.cacheResults = <<>>

\* C12: scoring the cache for a query of any characters ends without an
\* error, gives every result an integer score >= 0 and changes neither the
\* cache nor lastCacheTime.
C12_ScoringTotal ==
    [][\A h \in Handlers :
          (search[h].pc = "notice" /\ search'[h].pc = "done") =>
             /\ ~search'[h].error
             /\ \A k \in 1..Len(search'[h].cacheResults) :
                   search'[h].cacheResults[k].score \in Nat
             /\ articleCache' = articleCache
             /\ lastCacheTime' = lastCacheTime]_vars

\* the cache entries that score above 0 for the query, in the cache's order
LocalHits(cache, query) ==
    LET Hit(e) == Score(e.value, query) > 0
    IN  SelectSeq(cache, Hit)

\* C13: a search whose external branch gave nothing, the credentials missing
\* or the API request failing, returns without an error the 5 best local
\* results (all of them when there are fewer), each tagged as local.
C13_LocalOnlyWhenExternalDown ==
    (Returned /\ search["command"].items = <<>>) =>
       LET sr == search["command"]
           hits == LocalHits(articleCache, sr.query)
           m == [i \in 1..Len(hits) |-> [url |-> hits[i].key,
                                         score |-> Score(hits[i].value, sr.query)]]
       IN  /\ ~sr.error
           /\ sr.googleResults = <<>>
           /\ Len(sr.results) = IF Len(m) < 5 THEN Len(m) ELSE 5
           /\ \A k \in 1..Len(sr.results) : sr.results[k].source = "cache"
           /\ \A i \in 1..Len(m) :
                 RankIn(m, i) < 5 =>
                    /\ sr.results[RankIn(m, i) + 1].url = m[i].url
                    /\ sr.results[RankIn(m, i) + 1].score = m[i].score

\* the API request of a search has failed and the search has returned 5 of
\* 6 local results
C13_Witness ==
    /\ Returned
    /\ googleConfigured
    /\ search["command"].items = <<>>
    /\ Len(LocalHits(articleCache, search["command"].query)) > 5
    /\ Len(search["command"].results) = 5

\* C14: a search that finds the cache fresh but empty does not score it at
\* once: it makes one more refresh attempt first; and a search that scores
\* an empty cache returns the empty list.
C14_EmptyCacheForcesRefresh ==
    [][\A h \in Handlers :
          /\ (search[h].pc = "notice" /\ search'[h].pc # "notice"
              /\ ~Stale(lastCacheTime, now) /\ articleCache = <<>>)
             => (search'[h].pc = "refresh" /\ refresh'[h].pc = "index")
          /\ (search[h].pc # "done" /\ search'[h].pc = "done" /\ articleCache' = <<>>)
             => search'[h].results = <<>>]_vars

\* C15: lastCacheTime is written only in the step in which a refresh
\* returns: none of its scrapes is pending after that step, and every
\* record of its last batch that can be stored is in the cache.
C15_StampAfterLastBatch ==
    [][lastCacheTime' # lastCacheTime =>
          \E o \in Owners :
             /\ refresh[o].pc # "idle"
             /\ refresh'[o].pc = "idle"
             /\ lastCacheTime' = <<now>>
             /\ refresh[o].pc = "batch" =>
                   /\ Cardinality(PendingOfRefresh(o)) = 1
                   /\ refresh[o].i + batchSize >= Len(refresh[o].urls)
                   /\ \A k \in 1..Len(refresh[o].results) :
                         (/\ refresh[o].results[k] # <<>>
                          /\ refresh[o].results[k][1].title # PlaceholderTitle)
                         => MapHas(articleCache', refresh[o].results[k][1].url)]_vars

\* a refresh has stamped lastCacheTime, the record of its second batch is
\* in the cache, and another refresh still waits for a scrape
C15_Witness ==
    /\ lastCacheTime # <<>>
    /\ MapHas(articleCache, UrlC)
    /\ \E o \in Owners : PendingOfRefresh(o) # {}

\* the first 20 of the URLs discovered on the index page of many links
FirstTwenty == {Discover(IndexPageCap, <<>>)[n] : n \in 1..20}

\* C16: a refresh scrapes the first 20 discovered URLs, in their order, and
\* no other, and so puts at most 20 records into the cache.
C16_AtMostTwentyScraped ==
    /\ Len(Discover(IndexPageCap, <<>>)) > 20
    /\ \A o \in Owners :
          refresh[o].pc = "batch" =>
             /\ refresh[o].i + Len(refresh[o].results) <= 20
             /\ \A k \in 1..Len(refresh[o].results) :
                   refresh[o].urls[refresh[o].i + k] \in FirstTwenty
    /\ Len(articleCache) <= 20
    /\ MapKeys(articleCache) \subseteq FirstTwenty
    /\ (startup = "up" /\ lastCacheTime # <<>>) =>
          \A n \in 3..19 : MapHas(articleCache, UrlN(n))

\* the refresh has returned with 20 records in the cache, the 21st
\* discovered URL not among them
C16_Witness ==
    /\ startup = "up"
    /\ lastCacheTime # <<>>
    /\ Len(articleCache) = 20
    /\ ~MapHas(articleCache, UrlN(21))

\* C17: every record the extractor returns has the URL that was asked
\* for and a title that is not empty and not longer than 150 characters.
C17_TitleNeverEmpty ==
    \A o \in Owners : \A k \in 1..Len(refresh[o].results) :
       refresh[o].results[k] # <<>> =>
          /\ refresh[o].results[k][1].url = refresh[o].urls[refresh[o].i + k]
          /\ refresh[o].results[k][1].title # <<>>
          /\ Len(refresh[o].results[k][1].title) <= 150

\* a step that is no step of a refresh: none starts, goes on or returns
NoRefreshStep == refresh' = refresh

\* C18 as first stated: a step of a search that is no step of a refresh
\* leaves the cache and lastCacheTime as they are.
C18_OnlyRefreshMutates ==
    [][NoRefreshStep =>
          /\ articleCache' = articleCache
          /\ lastCacheTime' = lastCacheTime]_vars

\* C18: a step that is no step of a refresh leaves lastCacheTime as it is;
\* it changes the cache only by storing, under its link, the record
\* scraped for an external hit that is not the placeholder, every other
\* entry staying as it is; and it leaves the cache as it is when no scrape
\* of an external hit is outstanding.
C18_SearchOnlyAddsScrapedHits ==
    [][NoRefreshStep =>
          /\ lastCacheTime' = lastCacheTime
          /\ articleCache' # articleCache =>
                \E h \in Handlers : \E k \in PendingOfSearch(h) :
                   LET link == search[h].items[k].link
                   IN  /\ search'[h].data[k] # <<>>
                       /\ MapHas(articleCache', link)
                       /\ MapGet(articleCache', link) = search'[h].data[k][1]
                       /\ MapGet(articleCache', link).title # PlaceholderTitle
                       /\ MapGet(articleCache', link).url = link
                       /\ MapKeys(articleCache') = MapKeys(articleCache) \cup {link}
                       /\ \A u \in MapKeys(articleCache) \ {link} :
                             MapGet(articleCache', u) = MapGet(articleCache, u)
          /\ (\A h \in Handlers : PendingOfSearch(h) = {}) =>
                articleCache' = articleCache]_vars

\* a search that started no refresh has returned, and the cache is not what
\* it was when the search was called
C18_Witness ==
    /\ Returned
    /\ ~hist.refreshed
    /\ articleCache # hist.cache0
    /\ lastCacheTime # <<>>

\* an absolute URL: it names its scheme
IsAbsoluteUrl(url) ==
    \/ startsWith(url, <<"h","t","t","p",":","/","/">>)
    \/ startsWith(url, <<"h","t","t","p","s",":","/","/">>)

\* C19: every URL a refresh has discovered is absolute, holds the keyword
\* 'workline', is not the index URL, holds neither '#' nor 'mailto:', and
\* is in the list once.
C19_DiscoveredAreArticleUrls ==
    \A o \in Owners : \A i \in 1..Len(refresh[o].urls) :
       LET url == refresh[o].urls[i]
       IN  /\ IsAbsoluteUrl(url)
           /\ includes(url, <<"w","o","r","k","l","i","n","e">>)
           /\ url # <<"h","t","t","p","s",":","/","/","w","w","w",".","f","l","e","x","o","s",
                      ".","w","o","r","k","/","t","h","e","-","w","o","r","k","l","i","n","e","/">>
           /\ ~includes(url, <<"#">>)
           /\ ~includes(url, <<"m","a","i","l","t","o",":">>)
           /\ \A j \in 1..Len(refresh[o].urls) : refresh[o].urls[j] = url => j = i

\* the external hits of the returned search that were cached when it was
\* called, and the record of hit k then
CachedHits ==
    {k \in 1..Len(search["command"].items) :
        MapHas(hist.cache0, search["command"].items[k].link)}

RecordOfHit(k) == MapGet(hist.cache0, search["command"].items[k].link)

\* the search has returned, having processed the items of the external API
ReturnedWithHits ==
    /\ Returned
    /\ search["command"].items # <<>>
    /\ Len(search["command"].googleResults) = Len(search["command"].items)

\* C20 as first stated: the title, summary, topics and date of the result
\* of a cached external hit are those of the cached record.
C20_CachedHitShowsRecord ==
    ReturnedWithHits =>
       \A k \in CachedHits :
          /\ search["command"].googleResults[k].title = RecordOfHit(k).title
          /\ search["command"].googleResults[k].summary = RecordOfHit(k).summary
          /\ search["command"].googleResults[k].topics = RecordOfHit(k).topics
          /\ search["command"].googleResults[k].publishDate = RecordOfHit(k).publishDate

\* C20: a search processes at most 5 external hits.  For a hit that was a
\* cache key no page is fetched, and the result has the topics and date of
\* the cached record and its title and summary, the item's own title or
\* snippet standing in for an empty one.  For any other hit the page is
\* fetched, and its record is in the cache afterwards if the fetch gave a
\* record that is not the placeholder.  The search adds no cache key but
\* links of its hits, so at most 5.
C20_HitsUseCacheOrScrapeOnce ==
    ReturnedWithHits =>
       LET sr == search["command"]
       IN  /\ Len(sr.items) <= 5
           /\ \E response \in ResponsesSeq :
                 /\ Len(sr.items) = IF Len(response) < 5 THEN Len(response) ELSE 5
                 /\ \A k \in 1..Len(sr.items) : sr.items[k] = response[k]
           /\ Len(hist.pages) = Len(sr.items)
           /\ \A k \in 1..Len(sr.items) :
                 /\ hist.pages[k].kind \in {"cached", "failed", "page"}
                 /\ hist.pages[k].kind = "cached" <=> k \in CachedHits
                 /\ hist.pages[k].kind = "page" =>
                       (sr.data[k][1].title # PlaceholderTitle
                        <=> MapHas(articleCache, sr.items[k].link))
                 /\ hist.pages[k].kind = "failed" =>
                       /\ sr.data[k][1].title = PlaceholderTitle
                       /\ MapHas(articleCache, sr.items[k].link) =>
                             \E j \in 1..Len(sr.items) :
                                /\ sr.items[j].link = sr.items[k].link
                                /\ hist.pages[j].kind = "page"
           /\ \A k \in CachedHits :
                 /\ sr.googleResults[k].title =
                       (IF RecordOfHit(k).title # <<>> THEN RecordOfHit(k).title
                        ELSE sr.items[k].title)
                 /\ sr.googleResults[k].summary =
                       (IF RecordOfHit(k).summary # <<>> THEN RecordOfHit(k).summary
                        ELSE sr.items[k].snippet)
                 /\ sr.googleResults[k].topics = RecordOfHit(k).topics
                 /\ sr.googleResults[k].publishDate = RecordOfHit(k).publishDate
           /\ ~hist.refreshed =>
                 /\ MapKeys(articleCache) \ MapKeys(hist.cache0)
                       \subseteq {sr.items[k].link : k \in 1..Len(sr.items)}
                 /\ Cardinality(MapKeys(articleCache) \ MapKeys(hist.cache0)) <= 5

\* a search has returned after a response of more than 5 items: 4 of the 5
\* it processed were cached, one with an empty summary, and the page of the
\* fifth was fetched and stored
C20_Witness ==
    /\ ReturnedWithHits
    /\ Len(search["command"].items) = 5
    /\ Cardinality(CachedHits) = 4
    /\ \E k \in CachedHits : RecordOfHit(k).summary = <<>>
    /\ \E k \in 1..5 :
          /\ hist.pages[k].kind = "page"
          /\ MapHas(articleCache, search["command"].items[k].link)
          /\ ~MapHas(hist.cache0, search["command"].items[k].link)

\* the fields scrapeArticle gives a record of a page it has fetched
StoredFields ==
    {"url", "title", "summary", "content", "topics", "publishDate", "scrapedAt"}

\* the record under u is scraped anew by this step: the batch of a refresh
\* that holds u ends, or the scrape of an external hit with link u returns
\* the record the cache then holds
Rescraped(u) ==
    \/ \E o \in Owners :
          /\ refresh[o].pc = "batch"
          /\ \E k \in 1..Len(refresh[o].results) : refresh[o].urls[refresh[o].i + k] = u
          /\ PendingOfRefresh(o) # {}
          /\ refresh'[o].pc # "batch" \/ refresh'[o].i # refresh[o].i
    \/ \E h \in Handlers : \E k \in PendingOfSearch(h) :
          /\ search[h].items[k].link = u
          /\ search'[h].data[k] = <<MapGet(articleCache', u)>>

\* C21: a record in the cache has the fields its scrape gave it, so neither
\* score nor source, while every result a search returns has both; and a
\* step, scoring steps included, leaves every cached record in the cache
\* and as it is unless the step scrapes it anew.
C21_ScoringLeavesRecords ==
    /\ [](/\ \A i \in 1..Len(articleCache) :
               DOMAIN articleCache[i].value = StoredFields
          /\ \A h \in Handlers : \A i \in 1..Len(search[h].results) :
               {"score", "source"} \subseteq DOMAIN search[h].results[i])
    /\ [][\A u \in MapKeys(articleCache) :
             /\ MapHas(articleCache', u)
             /\ MapGet(articleCache', u) # MapGet(articleCache, u) => Rescraped(u)]_vars

\* the second search has returned results scored from the cache, which by
\* then holds a record scraped anew by a later refresh
C21_Witness ==
    /\ calls = 2
    /\ search["command"].pc = "done"
    /\ \E i \in 1..Len(search["command"].results) :
          /\ search["command"].results[i].source = "cache"
          /\ search["command"].results[i].score > 0
          /\ MapHas(articleCache, search["command"].results[i].url)
    /\ \E i \in 1..Len(articleCache) : articleCache[i].value.scrapedAt > StartTime

\* C22: once lastCacheTime is set no step sets it back to null or to an
\* earlier time, whichever refreshes overlap; and every entry of the cache
\* is stored under the url of its record.
C22_StampMonotoneKeysAreUrls ==
    /\ [](\A i \in 1..Len(articleCache) :
             articleCache[i].key = articleCache[i].value.url)
    /\ [][lastCacheTime # <<>> =>
             /\ lastCacheTime' # <<>>
             /\ lastCacheTime'[1] >= lastCacheTime[1]]_vars

\* the refresh of the message handler has stamped lastCacheTime after time
\* has passed, while the refresh of the command handler, which overlaps it,
\* is still scraping; the cache holds a record stored by searchWithGoogle
\* under the link of an external hit
C22_Witness ==
    /\ lastCacheTime # <<>>
    /\ lastCacheTime[1] > StartTime
    /\ MapHas(articleCache, UrlH)
    /\ refresh["command"].pc = "batch"
    /\ refresh["message"].pc = "idle"
    /\ search["message"].pc = "done"

\* C23: no result a search returns has the title and the summary of the
\* record of a failed scrape; the result of an external hit that was not
\* cached and whose scrape failed shows the title and the snippet of the
\* item of the external API.
C23_NoPlaceholderReturned ==
    /\ Returned =>
          \A i \in 1..Len(search["command"].results) :
             ~ /\ search["command"].results[i].title = PlaceholderTitle
               /\ search["command"].results[i].summary = PlaceholderSummary
    /\ ReturnedWithHits =>
          \A k \in 1..Len(search["command"].items) :
             hist.pages[k].kind = "failed" =>
                /\ search["command"].googleResults[k].title =
                      search["command"].items[k].title
                /\ search["command"].googleResults[k].summary =
                      search["command"].items[k].snippet

====
